---------------------------- MODULE Spec2Model ----------------------------
(***************************************************************************)
(* A model of the college-events chatbot of src/app.py: the text pipeline  *)
(* (tokenize, normalize, detect_intents), the scorer/ranker (score_event,  *)
(* find_best_event), the reply formatters and generate_response.           *)
(*                                                                         *)
(* Python strings are TLA+ strings; a character is a string of length 1,   *)
(* read with SubSeq.  The non-ASCII glyphs of the replies (emoji, the      *)
(* rupee sign, the em dash, the bullet) are written as ASCII stand-ins,    *)
(* see the GLYPH_ definitions.  A call that can raise returns a record     *)
(* [raised, value]: Ret(v) is a normal return of v, Raise(e) is the        *)
(* exception e leaving the function.  A dict key that may be absent is a   *)
(* sequence of length 0 (absent) or 1 (present).                           *)
(***************************************************************************)
EXTENDS Integers, Sequences, FiniteSets, TLC

VARIABLES
    EVENTS,     \* the list loaded at startup, with the precomputed _title, _desc, _tags
    today,      \* datetime.now().date(), as <<year, month, day>>
    ticks,      \* how many days the clock has advanced since startup
    fn,         \* the function last applied
    message,    \* generate_response: the user text of the last call
    reply,      \* the outcome of the last call of a function that returns a string
    query,      \* score_event / find_best_event: the query tokens of the last call
    evidx,      \* score_event / reply_register: the index of the event of the last call
    result      \* score_event: the score; find_best_event: the index chosen (0: None)

vars == <<EVENTS, today, ticks, fn, message, reply, query, evidx, result>>

---------------------------------------------------------------------------
(* Outcomes of a call. *)

Ret(v) == [raised |-> FALSE, value |-> v]

Raise(e) == [raised |-> TRUE, value |-> e]

Range(s) == {s[i] : i \in 1..Len(s)}

---------------------------------------------------------------------------
(* Characters and strings. *)

UPPER == "ABCDEFGHIJKLMNOPQRSTUVWXYZ"

LOWER == "abcdefghijklmnopqrstuvwxyz"

DIGITS == "0123456789"

CharsOf(s) == {SubSeq(s, i, i) : i \in 1..Len(s)}

\* s[i:i+1]: the character at position i, "" past the end
char_at(s, i) == IF 1 <= i /\ i <= Len(s) THEN SubSeq(s, i, i) ELSE ""

\* TOKEN_RE = [a-zA-Z0-9']+ : the characters a token is made of
TOKEN_RE == CharsOf(UPPER) \cup CharsOf(LOWER) \cup CharsOf(DIGITS) \cup {"'"}

\* the whitespace str.split() and str.strip() use (the ASCII part of it that
\* a TLA+ string can hold)
WHITESPACE == {" ", "\t", "\n", "\r", "\f"}

\* str.lower() of one character
lower_char(c) ==
    IF c \in CharsOf(UPPER)
    THEN LET i == CHOOSE k \in 1..Len(UPPER) : SubSeq(UPPER, k, k) = c
         IN  SubSeq(LOWER, i, i)
    ELSE c

RECURSIVE lower(_)
lower(s) == IF s = "" THEN "" ELSE lower_char(SubSeq(s, 1, 1)) \o lower(SubSeq(s, 2, Len(s)))

\* the maximal runs of characters of `keep` in s, left to right
RECURSIVE Runs(_, _, _, _, _)
Runs(s, keep, i, cur, acc) ==
    LET flush == IF cur = "" THEN acc ELSE Append(acc, cur)
    IN  IF i > Len(s) THEN flush
        ELSE LET c == SubSeq(s, i, i)
             IN  IF c \in keep
                 THEN Runs(s, keep, i + 1, cur \o c, acc)
                 ELSE Runs(s, keep, i + 1, "", flush)

\* TOKEN_RE.findall(text)
findall(text) == Runs(text, TOKEN_RE, 1, "", <<>>)

\* str.split(): the runs of non-whitespace characters
split(s) == Runs(s, CharsOf(s) \ WHITESPACE, 1, "", <<>>)

\* not s.strip(): nothing but whitespace
strip_is_empty(s) == CharsOf(s) \subseteq WHITESPACE

\* the Python expression `t in w` on strings (t not empty)
contains(w, t) == \E i \in 1..(Len(w) - Len(t) + 1) : SubSeq(w, i, i + Len(t) - 1) = t

\* "sep".join(parts)
RECURSIVE join(_, _)
join(sep, parts) ==
    IF parts = <<>> THEN ""
    ELSE IF Len(parts) = 1 THEN parts[1]
    ELSE parts[1] \o sep \o join(sep, Tail(parts))

---------------------------------------------------------------------------
(* The fixed vocabularies. *)

STOPWORDS ==
    { "a", "an", "the", "is", "are", "was", "were", "be", "been", "being", "do",
      "does", "did", "to", "for", "of", "on", "in", "at", "by", "with", "from",
      "and", "or", "as", "about", "into", "over", "after", "before", "between",
      "during", "under", "again", "further", "then", "once", "here", "there",
      "when", "where", "why", "how", "all", "any", "both", "each", "few", "more",
      "most", "other", "some", "such", "no", "nor", "not", "only", "own", "same",
      "so", "than", "too", "very", "can", "will", "just", "don", "should", "now",
      "i", "you", "he", "she", "it", "we", "they", "me", "my", "our", "your",
      "their", "what", "which", "who", "whom", "this", "that", "these", "those",
      "afterwards", "also", "although", "among", "amongst", "am", "aren",
      "because", "couldn", "didn", "down", "hadn", "hasn", "haven", "having",
      "isn", "let", "might", "must", "needn", "ought", "shouldn", "wasn",
      "weren", "won", "wouldn" }

SYNONYMS ==
    [ when     |-> {"when", "date", "time", "schedule", "timing", "day", "today", "tomorrow"},
      where    |-> {"where", "venue", "location", "place", "hall", "room", "auditorium", "block"},
      register |-> {"register", "registration", "apply", "enroll", "signup", "sign-up", "fees", "cost"},
      what     |-> {"what", "info", "details", "about", "describe", "description"},
      who      |-> {"who", "speaker", "host", "club", "department", "organizer"},
      next     |-> {"next", "upcoming", "soon", "latest", "nearest"} ]

CANONICAL ==
    [ venue |-> "where", location |-> "where", place |-> "where", hall |-> "where",
      when |-> "when", date |-> "when", time |-> "when", timing |-> "when", schedule |-> "when",
      register |-> "register", registration |-> "register", signup |-> "register", fees |-> "register",
      speaker |-> "who", host |-> "who", club |-> "who", organizer |-> "who",
      about |-> "what", details |-> "what",
      upcoming |-> "next", latest |-> "next", soon |-> "next" ]

---------------------------------------------------------------------------
(* The text pipeline. *)

\* [t.lower() for t in found]
lower_all(found) == [i \in 1..Len(found) |-> lower(found[i])]

\* tokenize without the filter of line 56
tokenize_keep_stopwords(text) == lower_all(findall(text))

tokenize(text) == SelectSeq(lower_all(findall(text)), LAMBDA t : t \notin STOPWORDS)

normalize(tokens) ==
    [i \in 1..Len(tokens) |->
        IF tokens[i] \in DOMAIN CANONICAL THEN CANONICAL[tokens[i]] ELSE tokens[i]]

detect_intents(tokens) ==
    {intent \in DOMAIN SYNONYMS : \E s \in SYNONYMS[intent] : s \in Range(tokens)}
        \cup {CANONICAL[t] : t \in Range(tokens) \cap DOMAIN CANONICAL}

---------------------------------------------------------------------------
(* Dates: datetime.strptime(s, "%Y-%m-%d").date(), strftime("%d %b %Y") and *)
(* the comparison of dates.  A date is <<year, month, day>>.               *)

IsDigit(c) == c # "" /\ c \in CharsOf(DIGITS)

DigitVal(c) == (CHOOSE k \in 1..Len(DIGITS) : SubSeq(DIGITS, k, k) = c) - 1

IsLeap(y) == (y % 4 = 0 /\ y % 100 # 0) \/ y % 400 = 0

DaysInMonth(y, m) ==
    IF m = 2 THEN (IF IsLeap(y) THEN 29 ELSE 28)
    ELSE IF m \in {4, 6, 9, 11} THEN 30 ELSE 31

\* how many characters of s, read from position i, the directive %m takes:
\* the regex 1[0-2]|0[1-9]|[1-9], alternatives in this order (0: no match)
MonthWidth(s, i) ==
    LET a == char_at(s, i)
        b == char_at(s, i + 1)
    IN  IF a = "1" /\ b \in {"0", "1", "2"} THEN 2
        ELSE IF a = "0" /\ IsDigit(b) /\ b # "0" THEN 2
        ELSE IF IsDigit(a) /\ a # "0" THEN 1
        ELSE 0

\* the same for %d: 3[01]|[12]\d|0[1-9]|[1-9]| [1-9]
DayWidth(s, i) ==
    LET a == char_at(s, i)
        b == char_at(s, i + 1)
    IN  IF a = "3" /\ b \in {"0", "1"} THEN 2
        ELSE IF a \in {"1", "2"} /\ IsDigit(b) THEN 2
        ELSE IF a = "0" /\ IsDigit(b) /\ b # "0" THEN 2
        ELSE IF IsDigit(a) /\ a # "0" THEN 1
        ELSE IF a = " " /\ IsDigit(b) /\ b # "0" THEN 2
        ELSE 0

RECURSIVE int_of(_)
int_of(s) ==
    IF s = "" THEN 0
    ELSE 10 * int_of(SubSeq(s, 1, Len(s) - 1)) + DigitVal(SubSeq(s, Len(s), Len(s)))

\* the digits of a width-character field (a leading blank of %d dropped)
FieldVal(s, i, width) ==
    IF SubSeq(s, i, i) = " " THEN int_of(SubSeq(s, i + 1, i + width - 1))
    ELSE int_of(SubSeq(s, i, i + width - 1))

\* datetime.strptime(s, "%Y-%m-%d").date(): four digits, "-", a month, "-", a
\* day, nothing after it, and a date of the calendar; ValueError otherwise
strptime(s) ==
    LET date(y, m, d) ==
            IF y >= 1 /\ d <= DaysInMonth(y, m) THEN Ret(<<y, m, d>>)
            ELSE Raise("ValueError")
        day(mw, dpos, dw) ==
            IF dw = 0 \/ dpos + dw - 1 # Len(s) THEN Raise("ValueError")
            ELSE date(int_of(SubSeq(s, 1, 4)), FieldVal(s, 6, mw), FieldVal(s, dpos, dw))
        month(mw) ==
            IF mw = 0 \/ char_at(s, 6 + mw) # "-" THEN Raise("ValueError")
            ELSE day(mw, 6 + mw + 1, DayWidth(s, 6 + mw + 1))
    IN  IF ~(Len(s) >= 5 /\ (\A i \in 1..4 : IsDigit(SubSeq(s, i, i))) /\ SubSeq(s, 5, 5) = "-")
        THEN Raise("ValueError")
        ELSE month(MonthWidth(s, 6))

\* str(n) for n >= 0
RECURSIVE str_int(_)
str_int(n) ==
    IF n < 10 THEN SubSeq(DIGITS, n + 1, n + 1)
    ELSE str_int(n \div 10) \o SubSeq(DIGITS, (n % 10) + 1, (n % 10) + 1)

MONTH_ABBR == <<"Jan", "Feb", "Mar", "Apr", "May", "Jun",
                "Jul", "Aug", "Sep", "Oct", "Nov", "Dec">>

\* d.strftime("%d %b %Y") (years of four digits)
strftime(d) ==
    (IF d[3] < 10 THEN "0" ELSE "") \o str_int(d[3]) \o " " \o MONTH_ABBR[d[2]]
        \o " " \o str_int(d[1])

\* the order of dates, as an integer key
date_key(d) == d[1] * 10000 + d[2] * 100 + d[3]

\* d >= e on dates
date_ge(d, e) == date_key(d) >= date_key(e)

\* the day after d (the clock of datetime.now())
next_day(d) ==
    IF d[3] < DaysInMonth(d[1], d[2]) THEN <<d[1], d[2], d[3] + 1>>
    ELSE IF d[2] < 12 THEN <<d[1], d[2] + 1, 1>>
    ELSE <<d[1] + 1, 1, 1>>

---------------------------------------------------------------------------
(* Event records and the load at startup. *)

\* dict.get(key, default) of a key that may be absent
get(field, default) == IF field = <<>> THEN default ELSE field[1]

\* the JSON value of "fee": a number or a string, [py |-> its type, repr |-> str(it)]
truthy(v) == IF v.py = "int" THEN v.repr # "0" ELSE v.repr # ""

NoFee == [py |-> "str", repr |-> ""]

\* lines 19-22: the lowercase fields computed once at load
load_event(ev) ==
    [ title |-> ev.title, description |-> ev.description, date |-> ev.date,
      time |-> ev.time, location |-> ev.location, organizer |-> ev.organizer,
      fee |-> ev.fee, registration_link |-> ev.registration_link, tags |-> ev.tags,
      _title |-> lower(ev.title),
      _desc  |-> lower(ev.description),
      _tags  |-> lower_all(get(ev.tags, <<>>)) ]

load(raw) == [i \in 1..Len(raw) |-> load_event(raw[i])]

---------------------------------------------------------------------------
(* The scorer and the ranker. *)

Threshold == 2

PartialMinLen == 3

DigestSize == 3

\* line 86: the match bag of an event
textbag(ev) == Range(split(ev._title)) \cup Range(split(ev._desc)) \cup Range(ev._tags)

\* lines 95-100: the boost of an upcoming event; a date that does not parse adds nothing
boost(ev, now) ==
    LET upcoming(d) == IF d.raised THEN 0 ELSE IF date_ge(d.value, now) THEN 1 ELSE 0
    IN  upcoming(strptime(ev.date))

\* the loop of lines 87-93 run over the token list instead of over set(query_tokens)
RECURSIVE overlap_of_list(_, _)
overlap_of_list(tokens, tb) ==
    LET points(t) == IF t \in tb THEN 2
                     ELSE IF \E w \in tb : contains(w, t) /\ Len(t) > PartialMinLen THEN 1
                     ELSE 0
    IN  IF tokens = <<>> THEN 0
        ELSE points(Head(tokens)) + overlap_of_list(Tail(tokens), tb)

score_event_per_occurrence(query_tokens, ev, now) ==
    overlap_of_list(query_tokens, textbag(ev)) + boost(ev, now)

score_event(query_tokens, ev, now) ==
    LET overlap(bag, tb) ==
            2 * Cardinality({t \in bag : t \in tb})
              + Cardinality({t \in bag : t \notin tb /\
                                \E w \in tb : contains(w, t) /\ Len(t) > PartialMinLen})
    IN  overlap(Range(query_tokens), textbag(ev)) + boost(ev, now)

\* a stable sort of the positions 1..Len(keys) by key: ascending, or with
\* reverse descending; positions with equal keys keep their order either way
RECURSIVE sorted_prefix(_, _, _)
sorted_prefix(keys, reverse, n) ==
    LET before(done) == {j \in 1..Len(done) :
                            IF reverse THEN keys[done[j]] >= keys[n]
                                       ELSE keys[done[j]] <= keys[n]}
        put(done, k) == SubSeq(done, 1, k) \o <<n>> \o SubSeq(done, k + 1, Len(done))
        insert(done) == put(done, Cardinality(before(done)))
    IN  IF n = 0 THEN <<>> ELSE insert(sorted_prefix(keys, reverse, n - 1))

sorted(keys, reverse) == sorted_prefix(keys, reverse, Len(keys))

\* list(reversed(seq))
reversed(seq) == [i \in 1..Len(seq) |-> seq[Len(seq) + 1 - i]]

\* [score_event(query_tokens, e) for e in EVENTS]
scores(query_tokens, evs, now) ==
    [i \in 1..Len(evs) |-> score_event(query_tokens, evs[i], now)]

\* the ranker written as sorted(...)[::-1]: ties come out in reverse order
find_best_event_ties_reversed(query_tokens, evs, now) ==
    LET pick(keys, best) == IF keys[best] < Threshold THEN 0 ELSE best
        rank(keys)       == pick(keys, reversed(sorted(keys, FALSE))[1])
    IN  [best |-> rank(scores(query_tokens, evs, now)), EVENTS |-> evs]

\* the ranker written with EVENTS.sort(...): the collection itself is reordered
find_best_event_in_place(query_tokens, evs, now) ==
    LET out(keys, ranked) ==
            [best   |-> IF keys[ranked[1]] < Threshold THEN 0 ELSE 1,
             EVENTS |-> [i \in 1..Len(evs) |-> evs[ranked[i]]]]
        rank(keys) == out(keys, sorted(keys, TRUE))
    IN  rank(scores(query_tokens, evs, now))

\* the ranker with no threshold at all
find_best_event_no_threshold(query_tokens, evs, now) ==
    [best |-> sorted(scores(query_tokens, evs, now), TRUE)[1], EVENTS |-> evs]

\* best: the position in EVENTS of the event returned (0: None); EVENTS: the
\* collection after the call
find_best_event(query_tokens, evs, now) ==
    LET pick(keys, best) == IF keys[best] < Threshold THEN 0 ELSE best
        rank(keys)       == pick(keys, sorted(keys, TRUE)[1])
    IN  [best |-> rank(scores(query_tokens, evs, now)), EVENTS |-> evs]

---------------------------------------------------------------------------
(* The replies.  ASCII stand-ins of the glyphs of the source's strings. *)

GLYPH_CALENDAR == "[calendar]"

GLYPH_PIN == "[pin]"

GLYPH_MEMO == "[memo]"

GLYPH_PEOPLE == "[people]"

GLYPH_INFO == "[info]"

GLYPH_SCHEDULE == "[schedule]"

GLYPH_RUPEE == "Rs."

GLYPH_DASH == "--"

GLYPH_BULLET == "*"

\* fmt_datetime without the try/except around strptime
fmt_datetime_no_except(ev) ==
    LET with_time(d, t) == IF t = "" THEN d ELSE d \o " at " \o t
        out(p) == IF p.raised THEN p
                  ELSE Ret(with_time(strftime(p.value), get(ev.time, "")))
    IN  out(strptime(ev.date))

fmt_datetime(ev) ==
    LET with_time(d, t) == IF t = "" THEN d ELSE d \o " at " \o t
        day(p) == IF p.raised THEN ev.date ELSE strftime(p.value)
    IN  Ret(with_time(day(strptime(ev.date)), get(ev.time, "")))

reply_when(ev) ==
    LET say(f) == IF f.raised THEN f
                  ELSE Ret(GLYPH_CALENDAR \o " " \o ev.title \o " is scheduled on "
                              \o f.value \o ".")
    IN  say(fmt_datetime(ev))

reply_where(ev) ==
    Ret(GLYPH_PIN \o " Venue: " \o ev.location \o " (for " \o ev.title \o ").")

\* x or default, on strings
or_else(x, default) == IF x # "" THEN x ELSE default

\* reply_register with the fee line written whenever the key is there
reply_register_fee_if_key(ev) ==
    LET fee   == IF ev.fee # <<>> THEN "Fee: " \o GLYPH_RUPEE \o ev.fee[1].repr ELSE ""
        link  == or_else(get(ev.registration_link, ""),
                         "Registration link will be announced soon.")
        parts == <<GLYPH_MEMO \o " Registration for " \o ev.title, fee, "Link: " \o link>>
    IN  Ret(join(" | ", SelectSeq(parts, LAMBDA p : p # "")))

reply_register(ev) ==
    LET fee   == IF truthy(get(ev.fee, NoFee))
                 THEN "Fee: " \o GLYPH_RUPEE \o ev.fee[1].repr ELSE ""
        link  == or_else(get(ev.registration_link, ""),
                         "Registration link will be announced soon.")
        parts == <<GLYPH_MEMO \o " Registration for " \o ev.title, fee, "Link: " \o link>>
    IN  Ret(join(" | ", SelectSeq(parts, LAMBDA p : p # "")))

reply_who(ev) ==
    LET org == get(ev.organizer, "the organizing team")
    IN  Ret(GLYPH_PEOPLE \o " Organized by " \o org \o " for " \o ev.title \o ".")

reply_what(ev) == Ret(GLYPH_INFO \o " " \o ev.title \o ": " \o ev.description)

NO_UPCOMING == "There are no upcoming events right now. Please check back later."

\* lines 164-167: the header and one bullet per event, for the events at the
\* positions top of evs
digest(evs, top) ==
    join("\n",
         <<GLYPH_SCHEDULE \o " Upcoming events:">> \o
         [j \in 1..Len(top) |->
            LET ev == evs[top[j]]
            IN  GLYPH_BULLET \o " " \o ev.title \o " " \o GLYPH_DASH \o " "
                    \o strftime(strptime(ev.date).value) \o " at " \o get(ev.time, "")
                    \o " " \o GLYPH_DASH \o " " \o ev.location])

\* lines 152-159: the positions of the events whose date parses and is today
\* or later, in collection order
upcoming_of(evs, now) ==
    LET kept(d) == IF d.raised THEN FALSE ELSE date_ge(d.value, now)
    IN  SelectSeq([i \in 1..Len(evs) |-> i], LAMBDA i : kept(strptime(evs[i].date)))

\* lines 161-167: the first three of the list, or the message that there are none
top_of(evs, listed) ==
    IF listed = <<>> THEN Ret(NO_UPCOMING)
    ELSE Ret(digest(evs, SubSeq(listed, 1, IF Len(listed) < DigestSize THEN Len(listed)
                                                                     ELSE DigestSize)))

\* reply_next without the sort of line 160
reply_next_unsorted(evs, now) == top_of(evs, upcoming_of(evs, now))

reply_next(evs, now) ==
    LET keys(upcoming) ==
            [j \in 1..Len(upcoming) |-> date_key(strptime(evs[upcoming[j]].date).value)]
        by_date(upcoming, order) == [j \in 1..Len(upcoming) |-> upcoming[order[j]]]
        sort(upcoming) == by_date(upcoming, sorted(keys(upcoming), FALSE))
    IN  top_of(evs, sort(upcoming_of(evs, now)))

INTENT_TO_HANDLER(intent, ev) ==
    CASE intent = "when"     -> reply_when(ev)
      [] intent = "where"    -> reply_where(ev)
      [] intent = "register" -> reply_register(ev)
      [] intent = "who"      -> reply_who(ev)
      [] intent = "what"     -> reply_what(ev)

---------------------------------------------------------------------------
(* generate_response. *)

PROMPT == "Please type a question about a college event."

GREETING == "Hi! Ask me about college events " \o GLYPH_DASH
                \o " try 'when is the tech fest?' or 'how to register for hackathon?'"

NOT_FOUND == "I couldn't find that event. Try including the event name (e.g., 'tech fest', 'hackathon').\n\n"

\* lines 209-213: the default card
card(ev) ==
    LET say(f) == IF f.raised THEN f
                  ELSE Ret(ev.title \o " " \o GLYPH_DASH \o " " \o f.value \o " at "
                              \o ev.location \o ". Register: "
                              \o get(ev.registration_link, "TBA")
                              \o "\nAbout: " \o ev.description)
    IN  say(fmt_datetime(ev))

\* the loop of lines 204-206 with "where" tried before "when"
answer_for_where_first(ev, intents) ==
    LET order == <<"where", "when", "register", "who", "what">>
        hits  == {i \in 1..Len(order) : order[i] \in intents}
    IN  IF hits = {} THEN card(ev)
        ELSE INTENT_TO_HANDLER(order[CHOOSE i \in hits : \A j \in hits : i <= j], ev)

\* lines 204-213: the first intent of the fixed list that was detected
\* answers; the default card when none was
answer_for(ev, intents) ==
    LET order == <<"when", "where", "register", "who", "what">>
        hits  == {i \in 1..Len(order) : order[i] \in intents}
    IN  IF hits = {} THEN card(ev)
        ELSE INTENT_TO_HANDLER(order[CHOOSE i \in hits : \A j \in hits : i <= j], ev)

\* the greeting taken only when the text asks nothing else
small_talk_unless_intent(tokens) ==
    (\E w \in {"hello", "hi", "hey"} : w \in Range(tokens)) /\ detect_intents(tokens) = {}

\* line 191
small_talk(tokens) == \E w \in {"hello", "hi", "hey"} : w \in Range(tokens)

\* reply: the string returned, or the exception raised; EVENTS: the collection
\* after the call
generate_response(user_text, evs, now) ==
    LET fallback(n, store) ==
            [reply |-> IF n.raised THEN n ELSE Ret(NOT_FOUND \o n.value), EVENTS |-> store]
        located(found, intents) ==
            IF found.best = 0
            THEN fallback(reply_next(found.EVENTS, now), found.EVENTS)
            ELSE [reply  |-> answer_for(found.EVENTS[found.best], intents),
                  EVENTS |-> found.EVENTS]
        respond(tokens, intents) ==
            IF small_talk(tokens) THEN [reply |-> Ret(GREETING), EVENTS |-> evs]
            ELSE IF "next" \in intents THEN [reply |-> reply_next(evs, now), EVENTS |-> evs]
            ELSE located(find_best_event(tokens, evs, now), intents)
        understood(tokens) == respond(tokens, detect_intents(tokens))
    IN  IF user_text = "" \/ strip_is_empty(user_text)
        THEN [reply |-> Ret(PROMPT), EVENTS |-> evs]
        ELSE understood(normalize(tokenize(user_text)))

---------------------------------------------------------------------------
(* The inputs: the contents of data/events.json, the user texts, the clock. *)

MaxTicks == 3

StartDate == <<2025, 3, 30>>

FeeInt(n) == <<[py |-> "int", repr |-> str_int(n)]>>

FeeStr(x) == <<[py |-> "str", repr |-> x]>>

TechFest ==
    [ title |-> "Tech Fest", description |-> "Annual technical festival with Coding contests",
      date |-> "2025-04-02", time |-> <<"10:00 AM">>, location |-> "Main Auditorium",
      organizer |-> <<"CSE Department">>, fee |-> FeeInt(100),
      registration_link |-> <<"https://college.example/techfest">>,
      tags |-> << <<"Tech", "coding", "fest">> >> ]

Hackathon ==
    [ title |-> "Hackathon", description |-> "24 hour coding hackathon for teams",
      date |-> "2025-03-31", time |-> <<>>, location |-> "Lab 2",
      organizer |-> <<>>, fee |-> <<>>, registration_link |-> <<>>, tags |-> <<>> ]

CulturalNight ==
    [ title |-> "Cultural Night", description |-> "Music  and dance\tperformances",
      date |-> "31 March 2025", time |-> <<"6 PM">>, location |-> "Open Air Theatre",
      organizer |-> <<"Arts Club">>, fee |-> FeeStr(""), registration_link |-> <<"">>,
      tags |-> << <<>> >> ]

SportsMeet ==
    [ title |-> "Sports Meet", description |-> "Track and field events",
      date |-> "2025-03-01", time |-> <<"">>, location |-> "Ground",
      organizer |-> <<"Sports Club">>, fee |-> FeeInt(0), registration_link |-> <<>>,
      tags |-> << <<"sports">> >> ]

RoboticsWorkshop ==
    [ title |-> "Robotics Workshop", description |-> "Hands-on robotics and coding",
      date |-> "2025-3-31", time |-> <<"2 PM">>, location |-> "Lab 5",
      organizer |-> <<>>, fee |-> FeeStr("free"),
      registration_link |-> <<"https://college.example/robotics">>,
      tags |-> << <<"robotics", "workshop">> >> ]

QuizNight ==
    [ title |-> "Quiz Night", description |-> "General knowledge quiz",
      date |-> "2025-04-01", time |-> <<>>, location |-> "Seminar Hall",
      organizer |-> <<"Quiz Club">>, fee |-> FeeInt(50), registration_link |-> <<>>,
      tags |-> <<>> ]

AlumniTalk ==
    [ title |-> "Alumni Talk", description |-> "A talk by alumni",
      date |-> "2025-02-30", time |-> <<>>, location |-> "Room 101",
      organizer |-> <<>>, fee |-> <<>>, registration_link |-> <<>>, tags |-> <<>> ]

\* the event lists the program may have been started with (none is empty)
Stores ==
    { <<TechFest, Hackathon, CulturalNight, SportsMeet, RoboticsWorkshop, QuizNight>>,
      <<SportsMeet, CulturalNight, AlumniTalk>>,
      <<QuizNight, RoboticsWorkshop, Hackathon, TechFest>> }

Texts ==
    { "", "   ", " \t\n", "hi", "Hello, what's upcoming?", "hey hackathon venue",
      "what's next", "upcoming events", "nearest hackathon", "zzz",
      "basketball", "hack", "Hackathon", "tell me about the hackathon",
      "When is the Tech Fest?", "where is the hackathon", "Who What About hackathon",
      "hackathon date and venue", "venue date hackathon", "tech fest fees organizer",
      "cultural night registration", "cultural night schedule", "quiz details",
      "coding", "coding coding", "robotics organizer info", "technical", "alumni date",
      "sports", "sports fees", "cult", "tech" }

\* token lists score_event and find_best_event are applied to: those of the
\* texts, and a few that are not the output of normalize(tokenize(...))
Queries ==
    {normalize(tokenize(t)) : t \in Texts}
        \cup { <<"the", "tech">>, <<"Tech">>, <<"fest", "tech", "fest", "tech">>,
               <<"work", "work", "robo">>, <<"a">> }

---------------------------------------------------------------------------
(* The state machine.  The program is idle after the startup load and      *)
(* between requests; a call is applied to the loaded collection at the     *)
(* current date and its outcome is held until the call has returned.       *)

Idle ==
    /\ fn' = "idle"
    /\ message' = ""
    /\ reply' = Ret("")
    /\ query' = <<>>
    /\ evidx' = 0
    /\ result' = 0

Init ==
    /\ \E raw \in Stores : EVENTS = load(raw)
    /\ today = StartDate
    /\ ticks = 0
    /\ fn = "idle"
    /\ message = ""
    /\ reply = Ret("")
    /\ query = <<>>
    /\ evidx = 0
    /\ result = 0

\* POST /chat with a message: lines 224-229, generate_response
Chat ==
    /\ fn = "idle"
    /\ \E text \in Texts :
        \E r \in {generate_response(text, EVENTS, today)} :
            /\ fn' = "generate_response"
            /\ message' = text
            /\ reply' = r.reply
            /\ EVENTS' = r.EVENTS
            /\ UNCHANGED <<today, ticks, query, evidx, result>>

\* the same message posted once more, right after its reply
Resend ==
    /\ fn \in {"generate_response", "generate_response again"}
    /\ \E r \in {generate_response(message, EVENTS, today)} :
           /\ fn' = "generate_response again"
           /\ reply' = r.reply
           /\ EVENTS' = r.EVENTS
           /\ UNCHANGED <<today, ticks, message, query, evidx, result>>

CallScoreEvent ==
    /\ fn = "idle"
    /\ \E q \in Queries, i \in 1..Len(EVENTS) :
        /\ fn' = "score_event"
        /\ query' = q
        /\ evidx' = i
        /\ result' = score_event(q, EVENTS[i], today)
        /\ UNCHANGED <<EVENTS, today, ticks, message, reply>>

CallFindBestEvent ==
    /\ fn = "idle"
    /\ \E q \in Queries :
        \E r \in {find_best_event(q, EVENTS, today)} :
            /\ fn' = "find_best_event"
            /\ query' = q
            /\ result' = r.best
            /\ EVENTS' = r.EVENTS
            /\ UNCHANGED <<today, ticks, message, reply, evidx>>

CallReplyNext ==
    /\ fn = "idle"
    /\ fn' = "reply_next"
    /\ reply' = reply_next(EVENTS, today)
    /\ UNCHANGED <<EVENTS, today, ticks, message, query, evidx, result>>

CallReplyRegister ==
    /\ fn = "idle"
    /\ \E i \in 1..Len(EVENTS) :
        /\ fn' = "reply_register"
        /\ evidx' = i
        /\ reply' = reply_register(EVENTS[i])
        /\ UNCHANGED <<EVENTS, today, ticks, message, query, result>>

\* the call has returned and its outcome is gone
Return ==
    /\ fn # "idle"
    /\ Idle
    /\ UNCHANGED <<EVENTS, today, ticks>>

\* midnight: datetime.now().date() moves on
Tick ==
    /\ fn = "idle"
    /\ ticks < MaxTicks
    /\ ticks' = ticks + 1
    /\ today' = next_day(today)
    /\ UNCHANGED <<EVENTS, fn, message, reply, query, evidx, result>>

Next ==
    \/ Chat
    \/ Resend
    \/ CallScoreEvent
    \/ CallFindBestEvent
    \/ CallReplyNext
    \/ CallReplyRegister
    \/ Return
    \/ Tick

Spec == Init /\ [][Next]_vars

---------------------------------------------------------------------------
(* What the claims speak of, stated on the observed call. *)

InChat == fn \in {"generate_response", "generate_response again"}

\* the normalized tokens and the intents of the last message
Tokens == normalize(tokenize(message))

Intents == detect_intents(Tokens)

\* the text is empty or holds nothing but whitespace
Blank == \A i \in 1..Len(message) : SubSeq(message, i, i) \in WHITESPACE

\* a normalized token is a greeting word
Greets == \E i \in 1..Len(Tokens) : Tokens[i] \in {"hello", "hi", "hey"}

NextAsked == "next" \in Intents

\* the event the ranker chooses for the last message (0: none)
Matched == find_best_event(Tokens, EVENTS, today).best

\* the match bag of an event: the space-split lowercase title and description
\* words and the lowercase tags
MatchBag(ev) ==
    Range(split(lower(ev.title))) \cup Range(split(lower(ev.description)))
        \cup {lower(get(ev.tags, <<>>)[i]) : i \in 1..Len(get(ev.tags, <<>>))}

\* the points of one token against a bag
TokenPoints(t, bag) ==
    IF t \in bag THEN 2
    ELSE IF Len(t) > 3 /\ \E w \in bag : contains(w, t) THEN 1
    ELSE 0

\* the lexical points of a token list: each distinct token counted at its
\* first occurrence
RECURSIVE LexicalFrom(_, _, _)
LexicalFrom(q, i, bag) ==
    IF i > Len(q) THEN 0
    ELSE (IF \E j \in 1..(i - 1) : q[j] = q[i] THEN 0 ELSE TokenPoints(q[i], bag))
         + LexicalFrom(q, i + 1, bag)

Lexical(q, ev) == LexicalFrom(q, 1, MatchBag(ev))

\* the date of the event parses and is today or later
IsUpcoming(ev) == ~strptime(ev.date).raised /\ date_ge(strptime(ev.date).value, today)

Upcoming == {i \in 1..Len(EVENTS) : IsUpcoming(EVENTS[i])}

\* event i comes before event j in the digest: the earlier date, and the
\* collection order among equal dates
DigestBefore(i, j) ==
    LET di == date_key(strptime(EVENTS[i].date).value)
        dj == date_key(strptime(EVENTS[j].date).value)
    IN  di < dj \/ (di = dj /\ i < j)

\* the first min(3, n) upcoming events in digest order
DigestList ==
    LET n    == Cardinality(Upcoming)
        size == IF n < 3 THEN n ELSE 3
    IN  CHOOSE l \in [1..size -> Upcoming] :
            /\ \A a, b \in 1..size : a < b => DigestBefore(l[a], l[b])
            /\ \A u \in Upcoming \ Range(l) : \A a \in 1..size : DigestBefore(l[a], u)

\* how many times t occurs in w
Occurrences(w, t) ==
    Cardinality({i \in 1..(Len(w) - Len(t) + 1) : SubSeq(w, i, i + Len(t) - 1) = t})

\* the words of the text before stopword removal
RawWords == Range(tokenize_keep_stopwords(message))

IntentWords == UNION {SYNONYMS[k] : k \in DOMAIN SYNONYMS} \cup DOMAIN CANONICAL

QuestionWords == {"when", "where", "what", "who", "about"}

---------------------------------------------------------------------------
(* The claims. *)

\* C1: every input text gets exactly one reply, by the first applicable rule:
\* blank text gets the prompt; else a greeting token gets the greeting, whatever
\* other intent is present; else the "next" intent gets the upcoming digest,
\* matched event or not; else no event reaching the threshold gets the
\* "couldn't find" message followed by the digest; else the reply is one of the
\* event-specific replies of the matched event.
C1_FirstApplicableRule ==
    InChat =>
        /\ ~reply.raised
        /\ IF Blank THEN reply.value = PROMPT
           ELSE IF Greets THEN reply.value = GREETING
           ELSE IF NextAsked THEN reply = reply_next(EVENTS, today)
           ELSE IF Matched = 0
                THEN reply.value = NOT_FOUND \o reply_next(EVENTS, today).value
           ELSE reply \in {INTENT_TO_HANDLER(k, EVENTS[Matched]) :
                               k \in {"when", "where", "register", "who", "what"}}
                            \cup {card(EVENTS[Matched])}

\* C1 witness: a greeting together with the "next" intent was answered by the greeting
C1_Witness ==
    /\ InChat
    /\ message = "Hello, what's upcoming?"
    /\ NextAsked
    /\ reply.value = GREETING

\* C2: generate_response never raises: whatever the text, with records whose
\* date does not parse and records without the optional fields, the outcome is
\* a string that is not empty.
C2_NeverRaises ==
    InChat => ~reply.raised /\ Len(reply.value) > 0

\* C2 witness: the "when" reply of an event whose date does not parse shows the raw date
C2_Witness ==
    /\ InChat
    /\ message = "cultural night schedule"
    /\ strptime(EVENTS[Matched].date).raised
    /\ reply.value = "[calendar] Cultural Night is scheduled on 31 March 2025 at 6 PM."

\* C3 as stated: find_best_event returns an event only when the lexical overlap
\* (the +2 and +1 points, without the recency bonus) contributes at least 2
\* points.
C3_LexicalAtLeastTwo ==
    (fn = "find_best_event" /\ result # 0) => Lexical(query, EVENTS[result]) >= 2

\* C3 as amended: find_best_event returns an event only when its lexical overlap
\* contributes at least 1 point (the threshold of 2 is on the total, recency
\* bonus included); a query with no lexical hit in any bag returns no match and
\* generate_response answers with the fallback.
C3_LexicalAtLeastOne ==
    /\ (fn = "find_best_event" /\ result # 0) => Lexical(query, EVENTS[result]) >= 1
    /\ (fn = "find_best_event" /\ \A i \in 1..Len(EVENTS) : Lexical(query, EVENTS[i]) = 0)
            => result = 0
    /\ (InChat /\ ~Blank /\ ~Greets /\ ~NextAsked
               /\ \A i \in 1..Len(EVENTS) : Lexical(Tokens, EVENTS[i]) = 0)
            => reply.value = NOT_FOUND \o reply_next(EVENTS, today).value

\* C3 witness: an upcoming event was returned on one partial match and the recency bonus
C3_Witness ==
    /\ fn = "find_best_event"
    /\ result # 0
    /\ Lexical(query, EVENTS[result]) = 1
    /\ IsUpcoming(EVENTS[result])

\* C4: with an event matched and neither the greeting nor the "next" rule
\* applying, the reply is that of the first of when, where, register, who, what
\* that was detected, and the default card when none was.
C4_IntentPriority ==
    (InChat /\ ~Blank /\ ~Greets /\ ~NextAsked /\ Matched # 0) =>
        reply = IF "when" \in Intents THEN reply_when(EVENTS[Matched])
                ELSE IF "where" \in Intents THEN reply_where(EVENTS[Matched])
                ELSE IF "register" \in Intents THEN reply_register(EVENTS[Matched])
                ELSE IF "who" \in Intents THEN reply_who(EVENTS[Matched])
                ELSE IF "what" \in Intents THEN reply_what(EVENTS[Matched])
                ELSE card(EVENTS[Matched])

\* C4 witness: "where" and "when" both detected, "where" said first, answered by "when"
C4_Witness ==
    /\ InChat
    /\ message = "venue date hackathon"
    /\ {"when", "where"} \subseteq Intents
    /\ Matched # 0
    /\ reply = reply_when(EVENTS[Matched])

\* C5: reply_register does not raise; its reply has the fee segment exactly
\* when the event has a fee (a fee that is there and is neither empty nor
\* zero), the registration link when there is one and the placeholder
\* otherwise, and no empty part between separators.
C5_RegisterReply ==
    fn = "reply_register" =>
        LET ev      == EVENTS[evidx]
            hasFee  == ev.fee # <<>> /\ ev.fee[1] \notin {[py |-> "str", repr |-> ""],
                                                          [py |-> "int", repr |-> "0"]}
            hasLink == ev.registration_link # <<>> /\ ev.registration_link[1] # ""
        IN  /\ ~reply.raised
            /\ contains(reply.value, "Fee: ") <=> hasFee
            /\ hasFee => contains(reply.value, " | Fee: " \o GLYPH_RUPEE \o ev.fee[1].repr \o " | ")
            /\ IF hasLink
               THEN contains(reply.value, "Link: " \o ev.registration_link[1])
               ELSE contains(reply.value, "Link: Registration link will be announced soon.")
            /\ Occurrences(reply.value, " | ") = IF hasFee THEN 2 ELSE 1

\* C5 witness: an event with an empty tags list, an empty fee and an empty link
C5_Witness ==
    /\ fn = "reply_register"
    /\ EVENTS[evidx].tags = << <<>> >>
    /\ EVENTS[evidx].fee = FeeStr("")
    /\ EVENTS[evidx].registration_link = <<"">>
    /\ reply.value = "[memo] Registration for Cultural Night | Link: Registration link will be announced soon."

\* C6: handling a query changes nothing: no step changes the event collection,
\* its order or a record, and the same message sent again at the same date
\* gets the identical reply.
C6_NoMutation ==
    [][ /\ EVENTS' = EVENTS
        /\ (fn' = "generate_response again" /\ today' = today) => reply' = reply ]_vars

\* C6 witness: a message that went through the ranker was sent a second time
C6_Witness ==
    /\ fn = "generate_response again"
    /\ message = "coding"
    /\ Matched # 0

\* C7: score_event is a non-negative integer: over the distinct query tokens, 2
\* for an exact member of the match bag, else 1 for a token longer than 3
\* characters that is a substring of some bag word, else 0; plus 1 when the
\* date parses and is today or later.
C7_ScoreFormula ==
    fn = "score_event" =>
        /\ result \in Nat
        /\ result = Lexical(query, EVENTS[evidx])
                        + (IF IsUpcoming(EVENTS[evidx]) THEN 1 ELSE 0)

\* C7 witness: a query that repeats a token that hits the bag
C7_Witness ==
    /\ fn = "score_event"
    /\ \E i, j \in 1..Len(query) : i # j /\ query[i] = query[j]
                                      /\ TokenPoints(query[i], MatchBag(EVENTS[evidx])) > 0

\* C8: find_best_event returns no match exactly when the maximal score is
\* below 2, and otherwise the earliest event in collection order among those
\* of maximal score.
C8_StableMaximum ==
    fn = "find_best_event" =>
        LET sc(i) == score_event(query, EVENTS[i], today)
            top   == CHOOSE m \in {sc(i) : i \in 1..Len(EVENTS)} :
                        \A i \in 1..Len(EVENTS) : sc(i) <= m
        IN  /\ result = 0 <=> top < 2
            /\ result # 0 => /\ sc(result) = top
                             /\ \A j \in 1..(result - 1) : sc(j) < top

\* C8 witness: the event returned was tied with a later one
C8_Witness ==
    /\ fn = "find_best_event"
    /\ result # 0
    /\ \E j \in (result + 1)..Len(EVENTS) :
            score_event(query, EVENTS[j], today) = score_event(query, EVENTS[result], today)

\* C9: reply_next lists exactly the first min(3, n) of the n upcoming events
\* in ascending date order, equal dates in collection order; events whose date
\* does not parse and past events are left out; with n = 0 it is the fixed
\* "no upcoming events" message.
C9_Digest ==
    fn = "reply_next" =>
        /\ ~reply.raised
        /\ reply.value = IF Upcoming = {} THEN NO_UPCOMING ELSE digest(EVENTS, DigestList)

\* C9 witness: more than three upcoming events, not in date order in the
\* collection, two of them on the same day, and an event whose date does not parse
C9_Witness ==
    /\ fn = "reply_next"
    /\ Cardinality(Upcoming) > 3
    /\ \E i, j \in Upcoming : i < j /\ DigestBefore(j, i)
    /\ \E i, j \in Upcoming : i # j /\ strptime(EVENTS[i].date) = strptime(EVENTS[j].date)
    /\ \E i \in 1..Len(EVENTS) : strptime(EVENTS[i].date).raised

\* C10: when the only intent-bearing words of the text are among when, where,
\* what, who, about, none of the intents when, where, what, who is detected,
\* and a matched event is answered with the default card.
C10_QuestionWordsAreStopwords ==
    (InChat /\ IntentWords \cap RawWords \subseteq QuestionWords) =>
        /\ Intents \cap {"when", "where", "what", "who"} = {}
        /\ (~Blank /\ ~Greets /\ Matched # 0) => reply = card(EVENTS[Matched])

\* C10 witness: a text with who, what and about got the default card
C10_Witness ==
    /\ InChat
    /\ message = "Who What About hackathon"
    /\ {"who", "what", "about"} \subseteq RawWords
    /\ Matched # 0
    /\ reply = card(EVENTS[Matched])

===========================================================================
